---- MODULE Spec2Model ----
(***************************************************************************)
(* A model of credis: the RESP codec (protocol.rs), the command parser and *)
(* dispatcher (command.rs) and the connection handler (server.rs).         *)
(*                                                                         *)
(* A byte is a one-character string; a byte string (Rust String / &[u8])   *)
(* is a sequence of bytes.  Option<T> is a sequence: None is << >> and     *)
(* Some(x) is <<x>>.                                                       *)
(***************************************************************************)
EXTENDS Integers, Sequences, FiniteSets, TLC

VARIABLES
    cache,      \* HashMap<String, Query>: key -> Option<Query>       (main.rs:139)
    info,       \* Info {role, master_replid, master_repl_offset}     (server.rs:26)
    now,        \* the reading of SystemTime::now(), in milliseconds
    conn,       \* per connection slot: "closed" or "open" (a Handler task runs)
    last,       \* log of the last loop iteration of a Handler: which connection,
                \* when, the bytes read, the command, the outcome, what the
                \* command's key and the replication state were before, and the
                \* parity of the number of iterations so far
    lastOn,     \* history: per key, the last Get/Set command executed on it
    written,    \* history: the keys some executed Set has named
    cval,       \* codec harness: the value handed to the encoder
    cbuf,       \* codec harness: the buffer handed to the decoder
    cdec,       \* codec harness: the result of readnext_resp(cbuf)
    cpc,        \* codec harness: "value" -> "encoded" -> "decoded"
    boot,       \* main: where startup stands, the --replicaof argument, the result
                \* of repl_handshake and what it did on the stream to the primary
    preq,       \* parser harness: the value handed to Command::from_resp
    pres,       \* parser harness: the result of Command::from_resp(preq)
    ppc,        \* parser harness: "request" -> "parsed"
    task,       \* per connection: where its call of execute_command stands, the
                \* command, the locals of the arm and the response
    cacheLock,  \* the Mutex around the map: the connection whose guard is alive, or 0
    infoLock    \* the Mutex around Info: the connection whose guard is alive, or 0

vars == <<cache, info, now, conn, last, lastOn, written, cval, cbuf, cdec, cpc, boot,
          preq, pres, ppc, task, cacheLock, infoLock>>
parseVars == <<preq, pres, ppc>>
lockVars == <<task, cacheLock, infoLock>>
serverVars == <<cache, info, now, conn, last, lastOn, written, boot>>
codecVars == <<cval, cbuf, cdec, cpc>>

(***************************************************************************)
(* Bounds                                                                  *)
(***************************************************************************)
MaxTime == 2        \* the clock runs over 0..MaxTime
MaxArrLen == 2      \* arrays handed to the encoder have at most this many elements
MaxArgs == 4        \* requests handed to the parser have at most this many arguments

(***************************************************************************)
(* Bytes and byte strings                                                  *)
(***************************************************************************)
CR == "\r"
LF == "\n"
CRLF == <<CR, LF>>
\* a byte that is not valid UTF-8 on its own (0xFF)
BadByte == "0xFF"

None == << >>
Some(x) == <<x>>

Digits == <<"0", "1", "2", "3", "4", "5", "6", "7", "8", "9">>
IsDigit(c) == \E i \in 1..10 : Digits[i] = c
DigitVal(c) == (CHOOSE i \in 1..10 : Digits[i] = c) - 1

\* the text of a byte string, for comparison with string literals
RECURSIVE Str(_)
Str(s) == IF s = << >> THEN "" ELSE Head(s) \o Str(Tail(s))

\* usize::to_string / u64::to_string / i64::to_string
RECURSIVE NatToString(_)
NatToString(n) ==
    IF n < 10 THEN <<Digits[n + 1]>>
    ELSE NatToString(n \div 10) \o <<Digits[(n % 10) + 1]>>

IntToString(i) == IF i < 0 THEN <<"-">> \o NatToString(0 - i) ELSE NatToString(i)

RECURSIVE DigitsValue(_)
DigitsValue(s) ==
    IF s = << >> THEN 0
    ELSE 10 * DigitsValue(SubSeq(s, 1, Len(s) - 1)) + DigitVal(s[Len(s)])

AllDigits(s) == s # << >> /\ \A i \in 1..Len(s) : IsDigit(s[i])

\* str::parse::<u64>: an optional '+', then at least one digit.  None on failure.
\* (the model's numbers stay far below 2^64, so the overflow error is out of reach)
ParseUnsigned(s) ==
    LET body == IF s # << >> /\ Head(s) = "+" THEN Tail(s) ELSE s
    IN  IF AllDigits(body) THEN Some(DigitsValue(body)) ELSE None

\* str::parse::<i64> / parse::<isize>: an optional '+' or '-', then at least one digit.
ParseSigned(s) ==
    LET neg == s # << >> /\ Head(s) = "-"
        body == IF s # << >> /\ Head(s) \in {"+", "-"} THEN Tail(s) ELSE s
    IN  IF AllDigits(body)
        THEN Some(IF neg THEN 0 - DigitsValue(body) ELSE DigitsValue(body))
        ELSE None

\* str::to_uppercase / str::to_lowercase on the ASCII letters the model uses
Lower == <<"a", "c", "d", "e", "f", "g", "h", "i", "k", "l", "n", "o", "p", "r", "s", "t", "x", "y", "z">>
Upper == <<"A", "C", "D", "E", "F", "G", "H", "I", "K", "L", "N", "O", "P", "R", "S", "T", "X", "Y", "Z">>
UpperByte(c) == IF \E i \in 1..Len(Lower) : Lower[i] = c
                THEN Upper[CHOOSE i \in 1..Len(Lower) : Lower[i] = c] ELSE c
LowerByte(c) == IF \E i \in 1..Len(Upper) : Upper[i] = c
                THEN Lower[CHOOSE i \in 1..Len(Upper) : Upper[i] = c] ELSE c
to_uppercase(s) == [i \in 1..Len(s) |-> UpperByte(s[i])]
to_lowercase(s) == [i \in 1..Len(s) |-> LowerByte(s[i])]

(***************************************************************************)
(* protocol.rs: the Resp value and its encoder                             *)
(***************************************************************************)
SimpleString(s) == [kind |-> "SimpleString", val |-> s]
Integer(i) == [kind |-> "Integer", val |-> i]
\* Resp::BulkString(Option<String>); command.rs spells the variant Resp::Bulk
BulkString(o) == [kind |-> "BulkString", val |-> o]
Array(items) == [kind |-> "Array", val |-> items]
Null == [kind |-> "Null", val |-> << >>]

\* Kind::byte_char
byte_char(k) ==
    CASE k = "SimpleString" -> "+"
      [] k = "Integer" -> ":"
      [] k = "BulkString" -> "$"
      [] k = "Array" -> "*"
      [] k = "SimpleError" -> "-"
      [] k = "Null" -> "_"

RECURSIVE encoded_string(_)
RECURSIVE EncodeItems(_)
\* the `for item in list` loop of the Array arm
EncodeItems(list) ==
    IF list = << >> THEN << >>
    ELSE encoded_string(Head(list)) \o EncodeItems(Tail(list))

encoded_string(r) ==
    CASE r.kind = "SimpleString" ->
            <<byte_char("SimpleString")>> \o r.val \o CRLF
      [] r.kind = "Integer" ->
            <<byte_char("Integer")>> \o IntToString(r.val) \o CRLF
      [] r.kind = "BulkString" ->
            IF r.val # None
            THEN <<byte_char("BulkString")>> \o NatToString(Len(r.val[1])) \o CRLF
                    \o r.val[1] \o CRLF
            ELSE <<byte_char("BulkString")>> \o <<"-", "1">> \o CRLF
      [] r.kind = "Array" ->
            <<byte_char("Array")>> \o NatToString(Len(r.val)) \o CRLF
                \o EncodeItems(r.val)
      [] r.kind = "Null" -> <<"$", "-", "1">> \o CRLF

encode(r) == encoded_string(r)

(***************************************************************************)
(* protocol.rs: the decoder.  A result is Ok(value, size) or an error;     *)
(* a panic (unwrap on Err, slice out of range) is the error kind "panic".  *)
(***************************************************************************)
Ok(v, n) == [ok |-> TRUE, val |-> v, size |-> n]
Err(kind, text) == [ok |-> FALSE, err |-> kind, msg |-> text]
Panic(text) == [ok |-> FALSE, err |-> "panic", msg |-> text]

\* Kind::from_byte: the prefix bytes that name a Kind
KindBytes == {"+", ":", "$", "*", "-", "_", "#", ",", "(", "!", "=", "%", "~", ">"}
from_byte(c) ==
    CASE c = "+" -> Some("SimpleString")
      [] c = ":" -> Some("Integer")
      [] c = "$" -> Some("BulkString")
      [] c = "*" -> Some("Array")
      [] c \in KindBytes \ {"+", ":", "$", "*"} -> Some("Other")
      [] OTHER -> None

\* std::str::from_utf8(b).is_ok()
ValidUtf8(b) == \A i \in 1..Len(b) : b[i] # BadByte

\* Rust's b[from..to] and b[from..] (0-based, half open)
Slice(b, from, to) == SubSeq(b, from + 1, to)
SliceFrom(b, from) == SubSeq(b, from + 1, Len(b))

\* b.windows(2).position(|w| w == b"\r\n").map(|pos| pos + 2)
find_clrf_index(b) ==
    LET hits == {i \in 1..(Len(b) - 1) : b[i] = CR /\ b[i + 1] = LF}
    IN  IF hits = {} THEN None
        ELSE Some((CHOOSE i \in hits : \A j \in hits : i <= j) + 1)

parse_string(b) ==
    LET found == find_clrf_index(b) IN
    IF found = None THEN Err("InvalidData", "improperly terminated data payload")
    ELSE LET end == found[1]
             text == Slice(b, 0, end - 2)
         IN  IF ~ValidUtf8(text) THEN Err("InvalidData", "Invalid UTF-8 in Simple String")
             ELSE Ok(SimpleString(text), end)

parse_integer(b) ==
    LET found == find_clrf_index(b) IN
    IF found = None
    THEN Err("InvalidData", "improperly terminated data payload for integer")
    ELSE LET end == found[1]
             text == Slice(b, 0, end - 2)
         IN  IF ~ValidUtf8(text) THEN Err("InvalidData", "Invalid UTF-8 in Integer")
             ELSE IF ParseSigned(text) = None THEN Err("InvalidData", "Invalid integer value")
             ELSE Ok(Integer(ParseSigned(text)[1]), end)

parse_bulk(b) ==
    LET found == find_clrf_index(b) IN
    IF found = None
    THEN Err("InvalidData", "CLRF not found in bulk string length specification")
    ELSE LET len_end == found[1]
             text == Slice(b, 0, len_end - 2)
         IN  IF ~ValidUtf8(text)
             THEN Err("InvalidData", "Invalid UTF-8 in bulk string length specification")
             ELSE IF ParseSigned(text) = None
             THEN Err("InvalidData", "Invalid bulk string length")
             ELSE LET len == ParseSigned(text)[1]
                      data_start == len_end
                      data_end == data_start + len
                  IN  IF len = -1 THEN Ok(Null, 0)
                      \* `len as usize` of a length below -1: the addition overflows
                      \* (a panic with overflow checks) or wraps (then InvalidData or
                      \* a slice panic); no build decodes a value
                      ELSE IF len < -1 THEN Err("panic-or-InvalidData", "negative bulk length")
                      ELSE IF data_end + 2 > Len(b) \/ Slice(b, data_end, data_end + 2) # CRLF
                      THEN Err("InvalidData", "Improperly terminated data payload for bulk string")
                      ELSE IF ~ValidUtf8(Slice(b, data_start, data_end))
                      THEN Err("InvalidData", "Invalid UTF-8 in bulk string")
                      ELSE Ok(BulkString(Some(Slice(b, data_start, data_end))), data_end + 2)

RECURSIVE readnext_resp(_)
RECURSIVE parse_array(_)
RECURSIVE parse_next_arr_value(_)
RECURSIVE ParseItems(_, _, _)

\* returns Ok(value, remaining bytes): the size field holds `&b[size + 1..]`
parse_next_arr_value(b) ==
    LET r == readnext_resp(b) IN
    IF ~r.ok THEN r
    ELSE IF r.size + 1 > Len(b) THEN Panic("range start index out of range for slice")
    ELSE Ok(r.val, SliceFrom(b, r.size + 1))

\* the `for _ in 0..len` loop of parse_array: Ok(items, _) or the first error
ParseItems(rest, n, items) ==
    IF n = 0 THEN Ok(items, 0)
    ELSE LET r == parse_next_arr_value(rest) IN
         IF ~r.ok THEN r
         ELSE ParseItems(r.size, n - 1, Append(items, r.val))

parse_array(b) ==
    LET found == find_clrf_index(b) IN
    IF found = None
    THEN Err("InvalidData", "CLRF not found in array length specification")
    ELSE LET len_end == found[1]
             text == Slice(b, 0, len_end - 2)
         IN  IF ~ValidUtf8(text)
             THEN Err("InvalidData", "Invalid UTF-8 in array length specification")
             ELSE IF ParseSigned(text) = None
             THEN Err("InvalidData", "Invalid array length")
             ELSE LET len == ParseSigned(text)[1] IN
                  IF len < -1 THEN Err("InvalidData", "array length cannot be < -1")
                  ELSE IF len = -1 THEN Ok(Null, 0)
                  ELSE LET r == ParseItems(SliceFrom(b, len_end), len, << >>) IN
                       IF ~r.ok THEN r
                       ELSE Ok(Array(r.val), Len(b))

readnext_resp(b) ==
    IF b = << >> THEN Err("InvalidData", "incoming bytestream empty")
    \* println!(.., std::str::from_utf8(b).unwrap() ..)
    ELSE IF ~ValidUtf8(b) THEN Panic("called Result::unwrap() on an Err value: Utf8Error")
    ELSE LET resp_kind == from_byte(b[1]) IN
         IF resp_kind = None THEN Err("InvalidType", "unrecognized datatype prefix byte")
         ELSE CASE resp_kind[1] = "SimpleString" -> parse_string(SliceFrom(b, 1))
                [] resp_kind[1] = "Integer" -> parse_integer(SliceFrom(b, 1))
                [] resp_kind[1] = "BulkString" -> parse_bulk(SliceFrom(b, 1))
                [] resp_kind[1] = "Array" -> parse_array(SliceFrom(b, 1))
                [] OTHER -> Err("InvalidType", "unsupported RESP type")

(***************************************************************************)
(* command.rs: Command and its parser                                      *)
(***************************************************************************)
Echo(arg) == [name |-> "Echo", args |-> <<arg>>]
Ping == [name |-> "Ping", args |-> << >>]
Get(key) == [name |-> "Get", args |-> <<key>>]
Set(key, value, timeout) == [name |-> "Set", args |-> <<key, value, timeout>>]
Info(category) == [name |-> "Info", args |-> <<category>>]
Replconf(c) == [name |-> "Replconf", args |-> <<c>>]
Psync(p) == [name |-> "Psync", args |-> <<p>>]
\* ReplconfArgs; Capa holds the HashSet's elements (a Vec in unspecified order)
Port(port) == [variant |-> "Port", val |-> <<port>>]
Capa(names) == [variant |-> "Capa", val |-> names]
\* PsyncArgs
Question(offset) == [variant |-> "Question", val |-> <<offset>>]
Id(id, offset) == [variant |-> "Id", val |-> <<id, offset>>]

IsBulkSome(r) == r.kind = "BulkString" /\ r.val # None
BulkText(r) == r.val[1]

W_ECHO == <<"E", "C", "H", "O">>
W_PING == <<"P", "I", "N", "G">>
W_GET == <<"G", "E", "T">>
W_SET == <<"S", "E", "T">>
W_INFO == <<"I", "N", "F", "O">>
W_REPLCONF == <<"R", "E", "P", "L", "C", "O", "N", "F">>
W_PSYNC == <<"P", "S", "Y", "N", "C">>
W_PX == <<"P", "X">>
W_REPLICATION == <<"R", "E", "P", "L", "I", "C", "A", "T", "I", "O", "N">>
W_capa == <<"c", "a", "p", "a">>
W_listening_port == <<"l", "i", "s", "t", "e", "n", "i", "n", "g", "-", "p", "o", "r", "t">>
W_psync2 == <<"p", "s", "y", "n", "c", "2">>
W_OK == <<"O", "K">>
W_PONG == <<"P", "O", "N", "G">>

parse_echo(args) ==
    IF Len(args) = 2
    THEN IF IsBulkSome(args[2]) THEN Ok(Echo(BulkText(args[2])), 0)
         ELSE Err("InvalidArguments", "Argument must be a bulk string")
    ELSE Err("InvalidArguments", "command expects exactly one argument")

parse_ping(args) ==
    IF Len(args) = 1 THEN Ok(Ping, 0)
    ELSE Err("InvalidArguments", "PING command expects no arguments")

parse_get(args) ==
    IF Len(args) >= 2 /\ IsBulkSome(args[2]) THEN Ok(Get(BulkText(args[2])), 0)
    ELSE Err("InvalidArguments", "Usage: GET <key>")

parse_set(args) ==
    IF Len(args) = 3 /\ IsBulkSome(args[2]) /\ IsBulkSome(args[3])
    THEN Ok(Set(BulkText(args[2]), BulkText(args[3]), None), 0)
    ELSE IF Len(args) = 5 /\ \A i \in 2..5 : IsBulkSome(args[i])
    THEN IF to_uppercase(BulkText(args[4])) = W_PX
         THEN LET ms == ParseUnsigned(BulkText(args[5])) IN
              IF ms # None THEN Ok(Set(BulkText(args[2]), BulkText(args[3]), Some(ms[1])), 0)
              ELSE Err("InvalidArguments", "Invalid millisecond value")
         ELSE Err("InvalidArguments", "Unrecognized argument")
    ELSE Err("InvalidArguments", "Usage: SET <key> <value> <px> <milliseconds>")

parse_info(args) ==
    IF Len(args) = 2 /\ IsBulkSome(args[2])
    THEN IF to_uppercase(BulkText(args[2])) = W_REPLICATION
         THEN Ok(Info(Some(BulkText(args[2]))), 0)
         ELSE Err("InvalidArguments", "Unrecognized argument")
    ELSE Err("InvalidArguments", "Usage: INFO <category>")

\* each capa pair replaces the names collected so far
RECURSIVE ReplconfScanLastOnly(_, _, _)
ReplconfScanLastOnly(args, i, capabilities) ==
    IF i > Len(args) THEN Ok(Replconf(Capa(capabilities)), 0)
    ELSE IF ~IsBulkSome(args[i])
    THEN Err("InvalidArguments", "Usage: REPLCONF listening-port | capa <ARGS>")
    ELSE LET val == to_lowercase(BulkText(args[i])) IN
         IF val = W_capa
         THEN IF i + 1 > Len(args) THEN ReplconfScanLastOnly(args, i + 1, capabilities)
              ELSE IF IsBulkSome(args[i + 1])
              THEN ReplconfScanLastOnly(args, i + 2, {BulkText(args[i + 1])})
              ELSE Err("InvalidArguments", "No valid value found after 'capa'")
         ELSE IF val = W_listening_port
         THEN IF i + 1 > Len(args) THEN ReplconfScanLastOnly(args, i + 1, capabilities)
              ELSE IF IsBulkSome(args[i + 1])
              THEN Ok(Replconf(Port(BulkText(args[i + 1]))), 0)
              ELSE Err("InvalidArguments", "No valid value found after 'capa'")
         ELSE Err("InvalidArguments", "Unrecognized arguments")

\* the `while let Some(arg) = iter.next()` loop: i is the iterator's position
RECURSIVE ReplconfScan(_, _, _)
ReplconfScan(args, i, capabilities) ==
    IF i > Len(args) THEN Ok(Replconf(Capa(capabilities)), 0)
    ELSE IF ~IsBulkSome(args[i])
    THEN Err("InvalidArguments", "Usage: REPLCONF listening-port | capa <ARGS>")
    ELSE LET val == to_lowercase(BulkText(args[i])) IN
         IF val = W_capa
         THEN IF i + 1 > Len(args) THEN ReplconfScan(args, i + 1, capabilities)
              ELSE IF IsBulkSome(args[i + 1])
              THEN ReplconfScan(args, i + 2, capabilities \cup {BulkText(args[i + 1])})
              ELSE Err("InvalidArguments", "No valid value found after 'capa'")
         ELSE IF val = W_listening_port
         THEN IF i + 1 > Len(args) THEN ReplconfScan(args, i + 1, capabilities)
              ELSE IF IsBulkSome(args[i + 1])
              THEN Ok(Replconf(Port(BulkText(args[i + 1]))), 0)
              ELSE Err("InvalidArguments", "No valid value found after 'capa'")
         ELSE Err("InvalidArguments", "Unrecognized arguments")

parse_replconf(args) == ReplconfScan(args, 2, {})

parse_psync(args) ==
    IF Len(args) = 3 /\ IsBulkSome(args[2]) /\ IsBulkSome(args[3])
    THEN LET psynccmd == BulkText(args[2])
             offset == BulkText(args[3])
         IN  IF to_lowercase(psynccmd) = <<"?">>
             THEN IF offset = <<"-", "1">> THEN Ok(Psync(Question(offset)), 0)
                  ELSE Err("InvalidArguments",
                           "Byte offset should be -1 when querying for replid")
             ELSE Ok(Psync(Id(psynccmd, offset)), 0)
    ELSE Err("InvalidArguments", "Usage: PSYNC ? | <REPL_ID> <OFFSET>")

parse_command(args) ==
    IF args = << >> \/ ~IsBulkSome(args[1])
    THEN Err("InvalidCommand", "Command must be a bulk string")
    ELSE LET command_str == to_uppercase(BulkText(args[1])) IN
         CASE command_str = W_ECHO -> parse_echo(args)
           [] command_str = W_PING -> parse_ping(args)
           [] command_str = W_GET -> parse_get(args)
           [] command_str = W_SET -> parse_set(args)
           [] command_str = W_INFO -> parse_info(args)
           [] command_str = W_REPLCONF -> parse_replconf(args)
           [] command_str = W_PSYNC -> parse_psync(args)
           [] OTHER -> Err("InvalidCommand", "Unsupported command")

\* Command::from_resp
from_resp(resp) ==
    IF resp.kind = "Array" THEN parse_command(resp.val)
    ELSE Err("InvalidCommand", "resp should be an array")

\* the Display of CommandError: #[error("Command Error: Invalid Command - {}", .0)]
\* and #[error("Command Error: Invalid Arguments - {}", .0)]
to_string(e) ==
    (IF e.err = "InvalidCommand" THEN "Command Error: Invalid Command - "
     ELSE "Command Error: Invalid Arguments - ") \o e.msg

(***************************************************************************)
(* server.rs: Info (the replication state) and Query (a keyspace entry)    *)
(***************************************************************************)
\* the literal of Info::new
InitialReplId ==
    <<"8", "3", "7", "1", "b", "4", "f", "b", "1", "1", "5", "5", "b", "7", "1", "f", "4", "a", "0", "4">>
        \o <<"d", "3", "e", "1", "b", "c", "3", "e", "1", "8", "c", "4", "a", "9", "9", "0", "a", "e", "e", "b">>

\* Info::new(role)
InfoNew(role) == [role |-> role, master_replid |-> InitialReplId, master_repl_offset |-> 0]

\* Info::role
role(inf) ==
    IF inf.role = "Master" THEN <<"r", "o", "l", "e", ":", "m", "a", "s", "t", "e", "r">>
    ELSE <<"r", "o", "l", "e", ":", "s", "l", "a", "v", "e">>

\* Info::id
id(inf) == inf.master_replid

\* Info::replication: format!("# Replication\nrole:{}\nmaster_replid:{}\nmaster_repl_offset:{}", ..)
replication(inf) ==
    <<"#", " ", "R", "e", "p", "l", "i", "c", "a", "t", "i", "o", "n", "\n", "r", "o", "l", "e", ":">> \o role(inf)
        \o <<"\n", "m", "a", "s", "t", "e", "r", "_", "r", "e", "p", "l", "i", "d", ":">> \o inf.master_replid
        \o <<"\n", "m", "a", "s", "t", "e", "r", "_", "r", "e", "p", "l", "_", "o", "f", "f", "s", "e", "t", ":">> \o NatToString(inf.master_repl_offset)

Query(value, created_at, expiry) ==
    [value |-> value, created_at |-> created_at, expiry |-> expiry]

(***************************************************************************)
(* command.rs: execute_command.  The whole arm runs under the one lock it  *)
(* takes, so it is one step; t is the reading of SystemTime::now().        *)
(* The result is the returned value together with the cache and the info   *)
(* the arm leaves behind.                                                  *)
(***************************************************************************)
Outcome(result, cch, inf) == [result |-> result, cache |-> cch, info |-> inf]

\* the comparison turned around
ExpiredReversed(timeout, t) == timeout > t

\* `timeout < now` of the Get arm
Expired(timeout, t) == timeout < t

\* an expired entry is reported absent but left in the map
ExecGetNoRemove(key, cch, inf, t) ==
    IF cch[key] # None
    THEN LET value == cch[key][1] IN
         IF value.expiry # None /\ Expired(value.expiry[1], t)
         THEN [result |-> Ok(<<Null>>, 0), cache |-> cch, info |-> inf]
         ELSE [result |-> Ok(<<BulkString(Some(value.value))>>, 0), cache |-> cch, info |-> inf]
    ELSE [result |-> Ok(<<Null>>, 0), cache |-> cch, info |-> inf]

\* the Get arm
ExecGet(key, cch, inf, t) ==
    IF cch[key] # None
    THEN LET value == cch[key][1] IN
         IF value.expiry # None
         THEN IF Expired(value.expiry[1], t)
              THEN Outcome(Ok(<<Null>>, 0), [cch EXCEPT ![key] = None], inf)
              ELSE Outcome(Ok(<<BulkString(Some(value.value))>>, 0), cch, inf)
         ELSE Outcome(Ok(<<BulkString(Some(value.value))>>, 0), cch, inf)
    ELSE Outcome(Ok(<<Null>>, 0), cch, inf)

\* a Set without PX keeps the expiry of the entry it replaces
ExecSetKeepsExpiry(key, value, timeout, cch, inf, t) ==
    LET expiry == IF timeout # None THEN Some(t + timeout[1])
                  ELSE IF cch[key] # None THEN cch[key][1].expiry ELSE None
    IN  [result |-> Ok(<<SimpleString(W_OK)>>, 0),
         cache |-> [cch EXCEPT ![key] = Some(Query(value, t, expiry))], info |-> inf]

\* a Set that inserts only when the key has no entry
ExecSetIfAbsent(key, value, timeout, cch, inf, t) ==
    LET expiry == IF timeout # None THEN Some(t + timeout[1]) ELSE None
    IN  [result |-> Ok(<<SimpleString(W_OK)>>, 0),
         cache |-> IF cch[key] # None THEN cch
                   ELSE [cch EXCEPT ![key] = Some(Query(value, t, expiry))],
         info |-> inf]

\* the Set arm
ExecSet(key, value, timeout, cch, inf, t) ==
    LET expiry == IF timeout # None THEN Some(t + timeout[1]) ELSE None
    IN  Outcome(Ok(<<SimpleString(W_OK)>>, 0),
                [cch EXCEPT ![key] = Some(Query(value, t, expiry))], inf)

\* the Info arm
ExecInfo(category, cch, inf) ==
    IF category # None
    THEN Outcome(Ok(<<BulkString(Some(replication(inf)))>>, 0), cch, inf)
    ELSE Outcome(Ok(<<Null>>, 0), cch, inf)

\* the id is assigned before the offset is parsed
PsyncIdWritesFirst(p, cch, inf) ==
    LET offset == ParseUnsigned(p.val[2]) IN
    IF offset = None
    THEN [result |-> Err("InvalidArguments", "byte offset must be a valid number"),
          cache |-> cch, info |-> [inf EXCEPT !.master_replid = p.val[1]]]
    ELSE [result |-> Ok(<<SimpleString(<<"R", "E", "P", "L", "C", "O", "N", "F", " ", "A", "C", "K", " ">> \o NatToString(offset[1]))>>, 0),
          cache |-> cch,
          info |-> [inf EXCEPT !.master_replid = p.val[1],
                               !.master_repl_offset = offset[1]]]

\* the PsyncArgs::Id arm
PsyncId(p, cch, inf) ==
    LET offset == ParseUnsigned(p.val[2]) IN
    IF offset = None
    THEN Outcome(Err("InvalidArguments", "byte offset must be a valid number"), cch, inf)
    ELSE Outcome(Ok(<<SimpleString(<<"R", "E", "P", "L", "C", "O", "N", "F", " ", "A", "C", "K", " ">> \o NatToString(offset[1]))>>, 0),
                 cch,
                 [inf EXCEPT !.master_replid = p.val[1],
                             !.master_repl_offset = offset[1]])

\* FULLRESYNC names the id the node started with, not its current id
ExecPsyncStaleId(p, cch, inf) ==
    IF p.variant = "Question"
    THEN Outcome(Ok(<<SimpleString(<<"F", "U", "L", "L", "R", "E", "S", "Y", "N", "C", " ">> \o InitialReplId \o <<" ", "0">>)>>, 0),
                 cch, inf)
    ELSE PsyncId(p, cch, inf)

\* the Psync arm
ExecPsync(p, cch, inf) ==
    IF p.variant = "Question"
    THEN Outcome(Ok(<<SimpleString(<<"F", "U", "L", "L", "R", "E", "S", "Y", "N", "C", " ">> \o id(inf) \o <<" ", "0">>)>>, 0),
                 cch, inf)
    ELSE PsyncId(p, cch, inf)

\* REPLCONF listening-port turns the node into a replica
ExecuteReplconfSetsRole(cmd, cch, inf, t) ==
    CASE cmd.name = "Echo" -> [result |-> Ok(<<BulkString(Some(cmd.args[1]))>>, 0), cache |-> cch, info |-> inf]
      [] cmd.name = "Ping" -> [result |-> Ok(<<SimpleString(W_PONG)>>, 0), cache |-> cch, info |-> inf]
      [] cmd.name = "Get" -> ExecGet(cmd.args[1], cch, inf, t)
      [] cmd.name = "Set" -> ExecSet(cmd.args[1], cmd.args[2], cmd.args[3], cch, inf, t)
      [] cmd.name = "Info" -> ExecInfo(cmd.args[1], cch, inf)
      [] cmd.name = "Replconf" ->
            [result |-> Ok(<<SimpleString(W_OK)>>, 0), cache |-> cch,
             info |-> IF cmd.args[1].variant = "Port" THEN [inf EXCEPT !.role = "Slave"] ELSE inf]
      [] cmd.name = "Psync" -> ExecPsync(cmd.args[1], cch, inf)

execute_command(cmd, cch, inf, t) ==
    CASE cmd.name = "Echo" -> Outcome(Ok(<<BulkString(Some(cmd.args[1]))>>, 0), cch, inf)
      [] cmd.name = "Ping" -> Outcome(Ok(<<SimpleString(W_PONG)>>, 0), cch, inf)
      [] cmd.name = "Get" -> ExecGet(cmd.args[1], cch, inf, t)
      [] cmd.name = "Set" -> ExecSet(cmd.args[1], cmd.args[2], cmd.args[3], cch, inf, t)
      [] cmd.name = "Info" -> ExecInfo(cmd.args[1], cch, inf)
      [] cmd.name = "Replconf" -> Outcome(Ok(<<SimpleString(W_OK)>>, 0), cch, inf)
      [] cmd.name = "Psync" -> ExecPsync(cmd.args[1], cch, inf)

(***************************************************************************)
(* main.rs: startup.  HostSpec::from_str, repl_handshake and main up to    *)
(* the accept loop.                                                        *)
(***************************************************************************)
W_localhost == <<"l", "o", "c", "a", "l", "h", "o", "s", "t">>
W_loopback == <<"1", "2", "7", ".", "0", ".", "0", ".", "1">>
W_redis == <<"r", "e", "d", "i", "s">>
\* the hosts of the model that parse as an IpAddr
IpLiterals == {W_loopback}

HostSpec(host, port) == [host |-> host, port |-> port]

\* HostSpec::from_str; components is s.split_whitespace()
from_str(components) ==
    IF Len(components) # 2
    THEN Err("String", "Invalid Master Host and Port specification.")
    ELSE LET host == components[1]
             port == ParseUnsigned(components[2])
         IN  IF port = None \/ port[1] > 65535 THEN Err("String", "Invalid Port")
             ELSE IF ~(1024 <= port[1] /\ port[1] <= 65535)
             THEN Err("String", "Port must be between 1024 and 65535")
             ELSE IF host \in IpLiterals THEN Ok(HostSpec(host, port[1]), 0)
             ELSE IF host # W_localhost THEN Err("String", "Invalid host")
             ELSE Ok(HostSpec(W_loopback, port[1]), 0)

\* the values of --replicaof the model starts a node with
ReplicaOf == {
    None,
    Some(<<W_localhost, <<"6", "3", "7", "9">>>>),
    Some(<<W_loopback, <<"6", "3", "7", "9">>>>),
    Some(<<<<"l", "o", "c", "a", "l", "h", "o", "s", "t", ":", "6", "3", "7", "9">>>>),
    Some(<<W_localhost, <<"8", "0">>>>),
    Some(<<W_localhost, <<"z", "z">>>>),
    Some(<<W_redis, <<"6", "3", "7", "9">>>>)
}

\* the bytes repl_handshake writes: b"*1\r\n$4\r\nping\r\n"
HandshakePing == <<"*", "1", CR, LF, "$", "4", CR, LF, "p", "i", "n", "g", CR, LF>>

\* what repl_handshake does on the stream to the primary
Send(bytes) == [op |-> "send", data |-> bytes]

\* the Role main settles on
RoleOf(replicaof) == IF replicaof # None THEN "Slave" ELSE "Master"

\* main after Args::parse
BootStart(replicaof) ==
    [pc |-> "main", replicaof |-> replicaof, master |-> None, hs |-> "none", io |-> << >>]

\* main in its accept loop: as a replica after a handshake, or as a primary
BootListening(r) ==
    IF r = "Slave"
    THEN [pc |-> "listening", replicaof |-> Some(<<W_localhost, <<"6", "3", "7", "9">>>>),
          master |-> Some(HostSpec(W_loopback, 6379)), hs |-> "ok",
          io |-> <<Send(HandshakePing)>>]
    ELSE [pc |-> "listening", replicaof |-> None, master |-> None, hs |-> "none", io |-> << >>]

\* a failed handshake is dropped and startup goes on
AfterHandshakeIgnored(ok) == "bind"

\* repl_handshake(master).await.expect(..): on Ok main goes on to bind
AfterHandshake(ok) == IF ok THEN "bind" ELSE "aborted"

(***************************************************************************)
(* What the clients send.  A request line is a list of words; on the wire  *)
(* it is an Array of Bulk values.                                          *)
(***************************************************************************)
K1 == <<"k", "1">>
K2 == <<"k", "2">>
KeySet == {K1, K2}
VA == <<"a">>
VB == <<"b">>
ValueSet == {VA, VB}
IdX == <<"x">>
IdY == <<"y">>
\* a verb the parser does not know
W_FOO == <<"F", "O", "O">>

Request(words) == encode(Array([i \in 1..Len(words) |-> BulkString(Some(words[i]))]))

\* the request lines of a workload on the keyspace
StoreLines == {
    <<W_PING>>,
    <<W_GET, K1>>,
    <<<<"g", "e", "t">>, K2>>,
    <<W_SET, K1, VA>>,
    <<W_SET, K1, VB>>,
    <<W_SET, K2, VA>>,
    <<W_SET, K1, VA, W_PX, <<"0">>>>,
    <<W_SET, K1, VB, <<"p", "x">>, <<"1">>>>,
    <<W_SET, K2, VB, W_PX, <<"z">>>>
}

\* the request lines of a workload on the replication state, with a write
\* and a read of the keyspace among them
ReplLines == {
    <<W_PING>>,
    <<W_ECHO, VA>>,
    <<W_SET, K2, VB>>,
    <<W_GET, K2>>,
    <<W_INFO, <<"r", "e", "p", "l", "i", "c", "a", "t", "i", "o", "n">>>>,
    <<W_REPLCONF, W_capa, W_psync2>>,
    <<W_REPLCONF, W_listening_port, <<"6", "3", "8", "0">>>>,
    <<W_PSYNC, <<"?">>, <<"-", "1">>>>,
    <<W_PSYNC, <<"?">>, <<"0">>>>,
    <<W_PSYNC, IdX, <<"2">>>>,
    <<W_PSYNC, IdX, <<"1">>>>,
    <<W_PSYNC, IdY, <<"z", "z">>>>,
    <<W_FOO>>
}

\* the bytes one read_buf call can deliver: a request, a value that is no
\* request, or a truncated request
TruncatedRead == <<"*", "1", CR, LF, "$", "4", CR, LF, "P", "I">>
StoreReads ==
    {Request(line) : line \in StoreLines} \cup {TruncatedRead}
ReplReads ==
    {Request(line) : line \in ReplLines}
        \cup {encode(SimpleString(W_PING)), TruncatedRead}
\* a replication id with the line end of the protocol in it
IdCrLf == <<"x", CR, LF>>

\* reads that try the framing: a client-supplied id with CR LF in it, and two
\* complete requests that arrive in one read
WireReads ==
    {Request(<<W_PING>>),
     Request(<<W_GET, K1>>),
     Request(<<W_PSYNC, <<"?">>, <<"-", "1">>>>),
     Request(<<W_PSYNC, IdX, <<"2">>>>),
     Request(<<W_PSYNC, IdCrLf, <<"1">>>>),
     Request(<<W_PING>>) \o Request(<<W_ECHO, VA>>),
     Request(<<W_SET, K1, VA>>) \o Request(<<W_GET, K1>>),
     TruncatedRead}

Reads == StoreReads \cup ReplReads \cup WireReads

(***************************************************************************)
(* server.rs: Handler::handle_stream, one iteration of its loop            *)
(***************************************************************************)
RECURSIVE EncodeAll(_)
\* write_resp of every response value, in order
EncodeAll(resps) ==
    IF resps = << >> THEN << >> ELSE encode(Head(resps)) \o EncodeAll(Tail(resps))

\* read_resp after read_buf delivered `bytes` into the empty buffer:
\* readnext_resp(&self.buf.split()), tabulated over the reads of the model
ReadTable == {<<bytes, readnext_resp(bytes)>> : bytes \in Reads}
read_resp(bytes) == (CHOOSE p \in ReadTable : p[1] = bytes)[2]

\* Command::from_resp(req) of a request that was read, tabulated likewise
ParsedTable ==
    {<<p[1], IF p[2].ok THEN from_resp(p[2].val) ELSE p[2]>> : p \in ReadTable}
Parsed(bytes) == (CHOOSE p \in ParsedTable : p[1] = bytes)[2]

\* a command error is dropped and the loop goes on to the next read
IterationSkipsErrors(bytes, cch, inf, t) ==
    LET req == read_resp(bytes) IN
    IF ~req.ok
    THEN [alive |-> FALSE, cmd |-> None, result |-> req, wire |-> << >>,
          cache |-> cch, info |-> inf]
    ELSE LET cmd == Parsed(bytes) IN
         IF ~cmd.ok
         THEN [alive |-> TRUE, cmd |-> None, result |-> cmd, wire |-> << >>,
               cache |-> cch, info |-> inf]
         ELSE LET out == execute_command(cmd.val, cch, inf, t) IN
              [alive |-> TRUE, cmd |-> Some(cmd.val), result |-> out.result,
               wire |-> IF out.result.ok THEN EncodeAll(out.result.val) ELSE << >>,
               cache |-> out.cache, info |-> out.info]

\* read_resp after a read of at least one byte, Command::from_resp,
\* execute_command and write_resp; every unwrap on an Err ends the task
Iteration(bytes, cch, inf, t) ==
    LET req == read_resp(bytes) IN
    IF ~req.ok
    THEN [alive |-> FALSE, cmd |-> None, result |-> req, wire |-> << >>,
          cache |-> cch, info |-> inf]
    ELSE LET cmd == Parsed(bytes) IN
         IF ~cmd.ok
         THEN [alive |-> FALSE, cmd |-> None, result |-> cmd, wire |-> << >>,
               cache |-> cch, info |-> inf]
         ELSE LET out == execute_command(cmd.val, cch, inf, t) IN
              IF ~out.result.ok
              THEN [alive |-> FALSE, cmd |-> Some(cmd.val), result |-> out.result,
                    wire |-> << >>, cache |-> out.cache, info |-> out.info]
              ELSE [alive |-> TRUE, cmd |-> Some(cmd.val), result |-> out.result,
                    wire |-> EncodeAll(out.result.val),
                    cache |-> out.cache, info |-> out.info]

Conns == {1, 2}
NoLast ==
    [n |-> 0, conn |-> 0, at |-> 0, req |-> << >>, cmd |-> None, result |-> Err("none", ""), wire |-> << >>,
     pre |-> None, prev |-> None, infoBefore |-> None]

\* the key a Get or Set command names
OnKey(cmd) == IF cmd # None /\ cmd[1].name \in {"Get", "Set"} THEN Some(cmd[1].args[1]) ELSE None

\* main: Info::new(role) and an empty HashMap; no connection accepted yet
ServerInit(r) ==
    /\ boot = BootListening(r)
    /\ cache = [k \in KeySet |-> None]
    /\ info = InfoNew(r)
    /\ now = 0
    /\ conn = [c \in Conns |-> "closed"]
    /\ last = NoLast
    /\ lastOn = [k \in KeySet |-> None]
    /\ written = {}

CodecIdle ==
    /\ cval = Null
    /\ cbuf = << >>
    /\ cdec = Err("none", "")
    /\ cpc = "idle"

ParseIdle ==
    /\ preq = Null
    /\ pres = Err("none", "")
    /\ ppc = "idle"

\* no call of execute_command is under way
NoTask == [pc |-> "idle", cmd |-> None, value |-> None, t |-> 0, offset |-> 0, resp |-> << >>]
LockIdle ==
    /\ task = [c \in Conns |-> NoTask]
    /\ cacheLock = 0
    /\ infoLock = 0

\* main.rs: listener.accept() and tokio::spawn of a Handler
Accept(c) ==
    /\ boot.pc = "listening"
    /\ conn[c] = "closed"
    /\ conn' = [conn EXCEPT ![c] = "open"]
    /\ UNCHANGED <<cache, info, now, last, lastOn, written, boot>>
    /\ UNCHANGED <<codecVars, parseVars, lockVars>>

HandleRequest(c, bytes) ==
    /\ conn[c] = "open"
    /\ \E it \in {Iteration(bytes, cache, info, now)} :
       /\ cache' = it.cache
       /\ info' = it.info
       /\ conn' = [conn EXCEPT ![c] = IF it.alive THEN "open" ELSE "closed"]
       /\ last' = [n |-> 1 - last.n, conn |-> c, at |-> now, req |-> bytes, cmd |-> it.cmd,
                   result |-> it.result, wire |-> it.wire,
                   pre |-> IF OnKey(it.cmd) # None THEN cache[OnKey(it.cmd)[1]] ELSE None,
                   prev |-> IF OnKey(it.cmd) # None THEN lastOn[OnKey(it.cmd)[1]] ELSE None,
                   infoBefore |-> Some(info)]
       /\ lastOn' = IF OnKey(it.cmd) # None
                    THEN [lastOn EXCEPT ![OnKey(it.cmd)[1]] = it.cmd]
                    ELSE lastOn
       /\ written' = IF it.cmd # None /\ it.cmd[1].name = "Set"
                     THEN written \cup {it.cmd[1].args[1]}
                     ELSE written
    /\ UNCHANGED <<now, boot>>
    /\ UNCHANGED <<codecVars, parseVars, lockVars>>

\* read_buf returns 0: read_resp gives None and the loop breaks
HandleEof(c) ==
    /\ conn[c] = "open"
    /\ conn' = [conn EXCEPT ![c] = "closed"]
    /\ UNCHANGED <<cache, info, now, last, lastOn, written, boot>>
    /\ UNCHANGED <<codecVars, parseVars, lockVars>>

\* time passes
Tick ==
    /\ now < MaxTime
    /\ now' = now + 1
    /\ UNCHANGED <<cache, info, conn, last, lastOn, written, boot>>
    /\ UNCHANGED <<codecVars, parseVars, lockVars>>

\* a node started without --replicaof
Init == ServerInit("Master") /\ CodecIdle /\ ParseIdle /\ LockIdle

\* a node started as either role
ReplInit == (\E r \in {"Master", "Slave"} : ServerInit(r)) /\ CodecIdle /\ ParseIdle /\ LockIdle

\* the server under a workload on the keyspace
Next ==
    \/ \E c \in Conns : Accept(c)
    \/ \E c \in Conns, bytes \in StoreReads : HandleRequest(c, bytes)
    \/ \E c \in Conns : HandleEof(c)
    \/ Tick

Spec == Init /\ [][Next]_vars

\* the server under a workload on the replication state
ReplNext ==
    \/ \E c \in Conns : Accept(c)
    \/ \E c \in Conns, bytes \in ReplReads : HandleRequest(c, bytes)
    \/ \E c \in Conns : HandleEof(c)
    \/ Tick

ReplSpec == ReplInit /\ [][ReplNext]_vars

\* the server under the reads that try the framing
WireNext ==
    \/ \E c \in Conns : Accept(c)
    \/ \E c \in Conns, bytes \in WireReads : HandleRequest(c, bytes)
    \/ \E c \in Conns : HandleEof(c)
    \/ Tick

WireSpec == Init /\ [][WireNext]_vars

(***************************************************************************)
(* main.rs: a node from the start of main.  The replication state and the  *)
(* map are made after the listener is bound; until then info holds the     *)
(* primary's initial value and nothing reads it.                           *)
(***************************************************************************)
\* main.rs:125-135 up to the call of repl_handshake: without --replicaof the
\* role is Master; with it the address is parsed, and a parse error panics
MainRole ==
    /\ boot.pc = "main"
    /\ boot' = IF boot.replicaof = None THEN [boot EXCEPT !.pc = "bind"]
               ELSE LET master == from_str(boot.replicaof[1]) IN
                    IF master.ok
                    THEN [boot EXCEPT !.pc = "connect", !.master = Some(master.val)]
                    ELSE [boot EXCEPT !.pc = "aborted"]
    /\ UNCHANGED <<cache, info, now, conn, last, lastOn, written>>
    /\ UNCHANGED <<codecVars, parseVars, lockVars>>

\* repl_handshake: TcpStream::connect(address.to_string()).await?
HandshakeConnect(ok) ==
    /\ boot.pc = "connect"
    /\ boot' = IF ok THEN [boot EXCEPT !.pc = "write"]
               ELSE [boot EXCEPT !.pc = AfterHandshake(FALSE), !.hs = "failed"]
    /\ UNCHANGED <<cache, info, now, conn, last, lastOn, written>>
    /\ UNCHANGED <<codecVars, parseVars, lockVars>>

\* repl_handshake: stream.write_all(b"*1\r\n$4\r\nping\r\n").await?; Ok(())
HandshakeWrite(ok) ==
    /\ boot.pc = "write"
    /\ boot' = IF ok
               THEN [boot EXCEPT !.pc = AfterHandshake(TRUE), !.hs = "ok",
                                 !.io = Append(boot.io, Send(HandshakePing))]
               ELSE [boot EXCEPT !.pc = AfterHandshake(FALSE), !.hs = "failed"]
    /\ UNCHANGED <<cache, info, now, conn, last, lastOn, written>>
    /\ UNCHANGED <<codecVars, parseVars, lockVars>>

\* TcpListener::bind(..).await?, Info::new(role) and the empty map
Bind(ok) ==
    /\ boot.pc = "bind"
    /\ boot' = [boot EXCEPT !.pc = IF ok THEN "listening" ELSE "aborted"]
    /\ info' = IF ok THEN InfoNew(RoleOf(boot.replicaof)) ELSE info
    /\ cache' = IF ok THEN [k \in KeySet |-> None] ELSE cache
    /\ UNCHANGED <<now, conn, last, lastOn, written>>
    /\ UNCHANGED <<codecVars, parseVars, lockVars>>

\* the reads of the clients of a node that was started
StartReads ==
    {Request(<<W_PING>>), Request(<<W_SET, K2, VB>>), Request(<<W_GET, K2>>),
     Request(<<W_PSYNC, <<"?">>, <<"-", "1">>>>), TruncatedRead}

StartInit ==
    /\ \E replicaof \in ReplicaOf : boot = BootStart(replicaof)
    /\ cache = [k \in KeySet |-> None]
    /\ info = InfoNew("Master")
    /\ now = 0
    /\ conn = [c \in Conns |-> "closed"]
    /\ last = NoLast
    /\ lastOn = [k \in KeySet |-> None]
    /\ written = {}
    /\ CodecIdle
    /\ ParseIdle
    /\ LockIdle

StartNext ==
    \/ MainRole
    \/ \E ok \in BOOLEAN : HandshakeConnect(ok)
    \/ \E ok \in BOOLEAN : HandshakeWrite(ok)
    \/ \E ok \in BOOLEAN : Bind(ok)
    \/ \E c \in Conns : Accept(c)
    \/ \E c \in Conns, bytes \in StartReads : HandleRequest(c, bytes)
    \/ \E c \in Conns : HandleEof(c)
    \/ Tick

StartSpec == StartInit /\ [][StartNext]_vars

(***************************************************************************)
(* command.rs: execute_command step by step.  An arm that works on the map *)
(* or on Info awaits the tokio Mutex, runs with the guard alive and drops  *)
(* the guard when it returns; handle_stream writes the response after the  *)
(* call has returned.  Tasks of several connections interleave at every    *)
(* step.                                                                   *)
(***************************************************************************)
\* the commands the connections dispatch
LockCommands ==
    {Ping, Get(K1), Set(K1, VA, Some(0)), Set(K1, VB, None),
     Info(Some(W_REPLICATION)), Psync(Question(<<"-", "1">>)),
     Psync(Id(IdX, <<"1">>)), Psync(Id(IdY, <<"2">>)), Psync(Id(IdY, <<"z", "z">>))}

\* the command of the call of connection c
Cmd(c) == task[c].cmd[1]
Running(c, pc, names) == task[c].pc = pc /\ Cmd(c).name \in names

\* the lock is handed out whoever holds it
FreeAlways(lock) == TRUE

\* lock().await returns when no guard of the Mutex is alive
Free(lock) == lock = 0

\* the guard is leaked: the Mutex stays locked
ReleaseNever(lock, c) == lock

\* the guard of c, if c has one on this Mutex, is dropped
Release(lock, c) == IF lock = c THEN 0 ELSE lock

\* server.rs:137: handle_stream calls execute_command(cmd, ..)
Dispatch(c, cmd) ==
    /\ task[c].pc = "idle"
    /\ task' = [task EXCEPT ![c] = [NoTask EXCEPT !.pc = "dispatch", !.cmd = Some(cmd)]]
    /\ UNCHANGED <<cacheLock, infoLock>>
    /\ UNCHANGED <<serverVars, codecVars, parseVars>>

\* the Echo, Ping and Replconf arms: no lock
NoLock(c) ==
    /\ task[c].pc = "dispatch"
    /\ Cmd(c).name \in {"Echo", "Ping", "Replconf"}
    /\ task' = [task EXCEPT ![c].pc = "write",
                            ![c].resp = execute_command(Cmd(c), cache, info, now).result.val]
    /\ UNCHANGED <<cacheLock, infoLock>>
    /\ UNCHANGED <<serverVars, codecVars, parseVars>>

\* cache.lock().await of the Get and Set arms
LockCache(c) ==
    /\ Running(c, "dispatch", {"Get", "Set"})
    /\ Free(cacheLock)
    /\ cacheLock' = c
    /\ task' = [task EXCEPT ![c].pc = "locked"]
    /\ UNCHANGED infoLock
    /\ UNCHANGED <<serverVars, codecVars, parseVars>>

\* info.lock().await of the Info and Psync arms
LockInfo(c) ==
    /\ Running(c, "dispatch", {"Info", "Psync"})
    /\ Free(infoLock)
    /\ infoLock' = c
    /\ task' = [task EXCEPT ![c].pc = "locked"]
    /\ UNCHANGED cacheLock
    /\ UNCHANGED <<serverVars, codecVars, parseVars>>

\* the Get arm up to the decision: now, cache.get(&key), the clone, the tests
\* of expiry and of `timeout < now`
GetRead(c) ==
    /\ Running(c, "locked", {"Get"})
    /\ LET value == cache[Cmd(c).args[1]] IN
       task' = [task EXCEPT
                  ![c].t = now,
                  ![c].value = value,
                  ![c].pc = IF value # None /\ value[1].expiry # None
                                 /\ Expired(value[1].expiry[1], now)
                            THEN "remove" ELSE "unlock",
                  ![c].resp = IF value = None THEN <<Null>>
                              ELSE <<BulkString(Some(value[1].value))>>]
    /\ UNCHANGED <<cacheLock, infoLock>>
    /\ UNCHANGED <<serverVars, codecVars, parseVars>>

\* cache.remove(&key); Ok(vec![Resp::Null])
GetRemove(c) ==
    /\ Running(c, "remove", {"Get"})
    /\ cache' = [cache EXCEPT ![Cmd(c).args[1]] = None]
    /\ task' = [task EXCEPT ![c].pc = "unlock", ![c].resp = <<Null>>]
    /\ UNCHANGED <<cacheLock, infoLock>>
    /\ UNCHANGED <<info, now, conn, last, lastOn, written, boot>>
    /\ UNCHANGED <<codecVars, parseVars>>

\* the Set arm: now, the expiry, cache.insert
SetInsert(c) ==
    /\ Running(c, "locked", {"Set"})
    /\ \E out \in {ExecSet(Cmd(c).args[1], Cmd(c).args[2], Cmd(c).args[3], cache, info, now)} :
        /\ cache' = out.cache
        /\ task' = [task EXCEPT ![c].pc = "unlock", ![c].t = now, ![c].resp = out.result.val]
    /\ UNCHANGED <<cacheLock, infoLock>>
    /\ UNCHANGED <<info, now, conn, last, lastOn, written, boot>>
    /\ UNCHANGED <<codecVars, parseVars>>

\* the Info arm and the PsyncArgs::Question arm: one read of Info
InfoRead(c) ==
    /\ task[c].pc = "locked"
    /\ \/ Cmd(c).name = "Info"
       \/ Cmd(c).name = "Psync" /\ Cmd(c).args[1].variant = "Question"
    /\ task' = [task EXCEPT ![c].pc = "unlock",
                            ![c].resp = execute_command(Cmd(c), cache, info, now).result.val]
    /\ UNCHANGED <<cacheLock, infoLock>>
    /\ UNCHANGED <<serverVars, codecVars, parseVars>>

\* the PsyncArgs::Id arm: offset.parse::<u64>().map_err(..)?
PsyncParse(c) ==
    /\ Running(c, "locked", {"Psync"})
    /\ Cmd(c).args[1].variant = "Id"
    /\ LET offset == ParseUnsigned(Cmd(c).args[1].val[2]) IN
       task' = IF offset = None
               THEN [task EXCEPT ![c].pc = "unlockErr"]
               ELSE [task EXCEPT ![c].pc = "parsed", ![c].offset = offset[1]]
    /\ UNCHANGED <<cacheLock, infoLock>>
    /\ UNCHANGED <<serverVars, codecVars, parseVars>>

\* info.master_replid = id
PsyncSetId(c) ==
    /\ Running(c, "parsed", {"Psync"})
    /\ info' = [info EXCEPT !.master_replid = Cmd(c).args[1].val[1]]
    /\ task' = [task EXCEPT ![c].pc = "idset"]
    /\ UNCHANGED <<cacheLock, infoLock>>
    /\ UNCHANGED <<cache, now, conn, last, lastOn, written, boot>>
    /\ UNCHANGED <<codecVars, parseVars>>

\* info.master_repl_offset = offset; Ok(vec![.. "REPLCONF ACK {offset}" ..])
PsyncSetOffset(c) ==
    /\ Running(c, "idset", {"Psync"})
    /\ info' = [info EXCEPT !.master_repl_offset = task[c].offset]
    /\ task' = [task EXCEPT ![c].pc = "unlock",
                            ![c].resp = PsyncId(Cmd(c).args[1], cache, info).result.val]
    /\ UNCHANGED <<cacheLock, infoLock>>
    /\ UNCHANGED <<cache, now, conn, last, lastOn, written, boot>>
    /\ UNCHANGED <<codecVars, parseVars>>

\* the arm returns: its guard goes out of scope
Unlock(c) ==
    /\ task[c].pc \in {"unlock", "unlockErr"}
    /\ cacheLock' = Release(cacheLock, c)
    /\ infoLock' = Release(infoLock, c)
    /\ task' = [task EXCEPT ![c].pc = IF task[c].pc = "unlock" THEN "write" ELSE "failed"]
    /\ UNCHANGED <<serverVars, codecVars, parseVars>>

\* server.rs:144: write_resp(response); the loop goes back to read_resp
WriteResp(c) ==
    /\ task[c].pc = "write"
    /\ task' = [task EXCEPT ![c] = NoTask]
    /\ UNCHANGED <<cacheLock, infoLock>>
    /\ UNCHANGED <<serverVars, codecVars, parseVars>>

\* the unwrap of an Err ended the task; the next connection takes its place
NextConnection(c) ==
    /\ task[c].pc = "failed"
    /\ task' = [task EXCEPT ![c] = NoTask]
    /\ UNCHANGED <<cacheLock, infoLock>>
    /\ UNCHANGED <<serverVars, codecVars, parseVars>>

\* the steps of the task of c that wait for nothing
Run(c) ==
    \/ NoLock(c) \/ GetRead(c) \/ GetRemove(c) \/ SetInsert(c) \/ InfoRead(c)
    \/ PsyncParse(c) \/ PsyncSetId(c) \/ PsyncSetOffset(c) \/ Unlock(c) \/ WriteResp(c)

LockInit ==
    /\ ServerInit("Master")
    /\ CodecIdle
    /\ ParseIdle
    /\ LockIdle

LockNext ==
    \/ \E c \in Conns, cmd \in LockCommands : Dispatch(c, cmd)
    \/ \E c \in Conns : NoLock(c)
    \/ \E c \in Conns : LockCache(c)
    \/ \E c \in Conns : LockInfo(c)
    \/ \E c \in Conns : GetRead(c)
    \/ \E c \in Conns : GetRemove(c)
    \/ \E c \in Conns : SetInsert(c)
    \/ \E c \in Conns : InfoRead(c)
    \/ \E c \in Conns : PsyncParse(c)
    \/ \E c \in Conns : PsyncSetId(c)
    \/ \E c \in Conns : PsyncSetOffset(c)
    \/ \E c \in Conns : Unlock(c)
    \/ \E c \in Conns : WriteResp(c)
    \/ \E c \in Conns : NextConnection(c)
    \/ Tick

\* the runtime schedules every task that can run, and the tokio Mutex hands
\* the lock to its waiters in the order they asked
LockFairness ==
    \A c \in Conns :
        /\ WF_vars(Run(c))
        /\ SF_vars(LockCache(c))
        /\ SF_vars(LockInfo(c))

LockSpec == LockInit /\ [][LockNext]_vars /\ LockFairness

(***************************************************************************)
(* The codec on its own: a value is encoded, the buffer may get further    *)
(* bytes behind the value or (an array) one damaged element, and           *)
(* readnext_resp decodes the buffer.                                       *)
(***************************************************************************)
W_hey == <<"h", "e", "y">>
Scalars ==
    {SimpleString(W_OK), Integer(51), Integer(-7),
     BulkString(None), BulkString(Some(W_hey)), Null}
\* what an array of the harness may hold: a scalar or an array of at most one scalar
Elements == Scalars \cup {Array(<< >>)} \cup {Array(<<e>>) : e \in Scalars}
ArraysOf(n) == {Array(items) : items \in [1..n -> Elements]}
CodecValues == Scalars \cup UNION {ArraysOf(n) : n \in 0..MaxArrLen}

\* the bytes that may follow a complete value in the buffer
Tails == {encode(SimpleString(W_OK)), <<"x">>, <<BadByte>>}

\* an element encoding that does not decode: an Integer with no digits
BadElement == <<":", "x", CR, LF>>

\* the encoding of array value v with element i replaced by BadElement
Damaged(v, i) ==
    <<byte_char("Array")>> \o NatToString(Len(v.val)) \o CRLF
        \o EncodeItems(SubSeq(v.val, 1, i - 1)) \o BadElement
        \o EncodeItems(SubSeq(v.val, i + 1, Len(v.val)))

CodecInit ==
    /\ ServerInit("Master")
    /\ ParseIdle
    /\ LockIdle
    /\ cval \in CodecValues
    /\ cbuf = << >>
    /\ cdec = Err("none", "")
    /\ cpc = "value"

CodecEncode ==
    /\ cpc = "value"
    /\ cbuf' = encode(cval)
    /\ cpc' = "encoded"
    /\ UNCHANGED <<cval, cdec>>
    /\ UNCHANGED <<serverVars, parseVars, lockVars>>

CodecAppend(tail) ==
    /\ cpc = "encoded"
    /\ cbuf' = cbuf \o tail
    /\ cpc' = "tailed"
    /\ UNCHANGED <<cval, cdec>>
    /\ UNCHANGED <<serverVars, parseVars, lockVars>>

CodecDamage(i) ==
    /\ cpc = "encoded"
    /\ cval.kind = "Array"
    /\ i \in 1..Len(cval.val)
    /\ cbuf' = Damaged(cval, i)
    /\ cpc' = "damaged"
    /\ UNCHANGED <<cval, cdec>>
    /\ UNCHANGED <<serverVars, parseVars, lockVars>>

CodecDecode ==
    /\ cpc \in {"encoded", "tailed", "damaged"}
    /\ cdec' = readnext_resp(cbuf)
    /\ cpc' = CASE cpc = "encoded" -> "decoded"
                [] cpc = "tailed" -> "decodedTailed"
                [] cpc = "damaged" -> "decodedDamaged"
    /\ UNCHANGED <<cval, cbuf>>
    /\ UNCHANGED <<serverVars, parseVars, lockVars>>

CodecNext ==
    \/ CodecEncode
    \/ \E tail \in Tails : CodecAppend(tail)
    \/ \E i \in 1..MaxArrLen : CodecDamage(i)
    \/ CodecDecode

CodecSpec == CodecInit /\ [][CodecNext]_vars

(***************************************************************************)
(* The command parser on its own: Command::from_resp is applied to a       *)
(* value, which is an Array of a verb and arguments or no Array at all.    *)
(***************************************************************************)
W_eof == <<"e", "o", "f">>
\* what a request may hold in the place of the verb
ParseVerbs ==
    {BulkString(Some(w)) :
        w \in {W_ECHO, W_PING, W_GET, W_SET, W_INFO, W_REPLCONF, W_PSYNC, W_FOO}}
        \cup {BulkString(Some(<<"g", "e", "t">>)), BulkString(None), Integer(51)}
\* what a request may hold in the place of an argument
ParseArgs ==
    {BulkString(Some(w)) : w \in {W_capa, W_psync2, W_eof, W_listening_port, K1}}
        \cup {BulkString(None), Integer(51)}
ArgLists == UNION {[1..n -> ParseArgs] : n \in 0..MaxArgs}
ParseValues ==
    {Array(<<verb>> \o args) : verb \in ParseVerbs, args \in ArgLists}
        \cup {Array(<< >>), SimpleString(W_ECHO), BulkString(Some(W_ECHO)),
              BulkString(None), Integer(51), Null}

ParseInit ==
    /\ ServerInit("Master")
    /\ CodecIdle
    /\ LockIdle
    /\ preq \in ParseValues
    /\ pres = Err("none", "")
    /\ ppc = "request"

ParseRequest ==
    /\ ppc = "request"
    /\ pres' = from_resp(preq)
    /\ ppc' = "parsed"
    /\ UNCHANGED preq
    /\ UNCHANGED <<serverVars, codecVars, lockVars>>

ParseNext == ParseRequest

ParseSpec == ParseInit /\ [][ParseNext]_vars

(***************************************************************************)
(* Properties of the keyspace (specification Spec)                         *)
(***************************************************************************)
\* the wire form of the null Bulk
NullBulkWire == <<"$", "-", "1", CR, LF>>
\* the wire form of a present Bulk of one byte
BulkWire(v) == <<"$", "1", CR, LF>> \o v \o CRLF

LastIs(cmd) == last.cmd = Some(cmd)
\* the last command answered with the null Bulk
AnsweredNull == last.result = Ok(<<Null>>, 0) /\ last.wire = NullBulkWire
\* the last command answered with the Bulk value v
AnsweredBulk(v) == last.result = Ok(<<BulkString(Some(v))>>, 0) /\ last.wire = BulkWire(v)
\* the entry the last command found had an expiry, and it relates to the time as given
PreExpiryBefore == last.pre # None /\ last.pre[1].expiry # None /\ last.pre[1].expiry[1] < last.at
PreExpiryAt == last.pre # None /\ last.pre[1].expiry # None /\ last.pre[1].expiry[1] = last.at

\* C1: a GET k whose previous command on k was a SET k v without PX is answered
\* with the Bulk value v, whatever else the store holds
C1_SetThenGet ==
    \A k \in KeySet, v \in ValueSet :
        (LastIs(Get(k)) /\ last.prev = Some(Set(k, v, None))) => AnsweredBulk(v)

\* the case of C1 with another entry in the store and time passed since the SET
C1_Witness ==
    /\ LastIs(Get(K1))
    /\ last.prev = Some(Set(K1, VB, None))
    /\ AnsweredBulk(VB)
    /\ cache[K2] # None
    /\ last.at > last.pre[1].created_at

C3_AbsentOrExpired ==
    \A k \in KeySet :
        /\ (LastIs(Get(k)) /\ (k \notin written \/ PreExpiryBefore))
                => (AnsweredNull /\ cache[k] = None)
        /\ \A v \in ValueSet :
            (LastIs(Get(k)) /\ last.prev = Some(Set(k, v, Some(0)))
                    /\ last.at > last.pre[1].created_at)
                => (AnsweredNull /\ cache[k] = None)
        /\ (LastIs(Get(k)) /\ last.prev = Some(Get(k)) /\ last.pre = None)
                => (AnsweredNull /\ cache[k] = None)

\* a key set with PX 0 is read after a positive delay
C3_Witness ==
    /\ LastIs(Get(K1))
    /\ last.prev = Some(Set(K1, VA, Some(0)))
    /\ last.at > last.pre[1].created_at
    /\ AnsweredNull
    /\ cache[K1] = None

\* C4: after SET k v [PX ttl] at time t the entry of k holds v and the expiry
\* t + ttl, or none without PX, whatever the entry was before; and as long as
\* the last command on k is a SET without PX the entry holds its value, unexpiring
C4_SetOverwrites ==
    /\ \A k \in KeySet, v \in ValueSet, ttl \in {None} \cup {Some(n) : n \in 0..2} :
        LastIs(Set(k, v, ttl))
            => /\ cache[k] # None
               /\ cache[k][1].value = v
               /\ cache[k][1].expiry = IF ttl = None THEN None ELSE Some(last.at + ttl[1])
    /\ \A k \in KeySet, v \in ValueSet :
        lastOn[k] = Some(Set(k, v, None))
            => (cache[k] # None /\ cache[k][1].value = v /\ cache[k][1].expiry = None)

\* a SET without PX replaced an entry with another value and an expiry
C4_Witness ==
    /\ LastIs(Set(K1, VA, None))
    /\ last.pre # None
    /\ last.pre[1].value = VB
    /\ last.pre[1].expiry # None
    /\ cache[K1] = Some(Query(VA, last.at, None))

(***************************************************************************)
(* Properties of the codec (specification CodecSpec)                       *)
(***************************************************************************)
\* the value the bytes of encode(v) stand for: an absent Bulk and Null share
\* the bytes $-1
RECURSIVE Canon(_)
Canon(v) ==
    CASE v.kind = "BulkString" /\ v.val = None -> Null
      [] v.kind = "Array" -> Array([i \in 1..Len(v.val) |-> Canon(v.val[i])])
      [] OTHER -> v

\* C5: decoding encode(v) succeeds and returns (v, number of bytes of encode(v))
C5_RoundTrip ==
    cpc = "decoded" => cdec = Ok(cval, Len(encode(cval)))

\* C6: decoding a buffer that holds one encoded value and further bytes returns
\* that value and the byte length of its encoding, the same as without the
\* further bytes
C6_TailIgnored ==
    cpc = "decodedTailed"
        => /\ cdec.ok
           /\ cdec.val = Canon(cval)
           /\ cdec.size = Len(encode(cval))
           /\ cdec = readnext_resp(encode(cval))

\* C7: decoding an array of n well-formed elements yields the Array of the n
\* decoded elements in order, and an array with an element that does not decode
\* does not decode
C7_ArrayElements ==
    /\ (cpc = "decoded" /\ cval.kind = "Array")
            => /\ cdec.ok
               /\ cdec.val.kind = "Array"
               /\ Len(cdec.val.val) = Len(cval.val)
               /\ \A i \in 1..Len(cval.val) : cdec.val.val[i] = Canon(cval.val[i])
    /\ cpc = "decodedDamaged" => ~cdec.ok

(***************************************************************************)
(* Properties of the replication state (specification ReplSpec)            *)
(***************************************************************************)
LastName(n) == last.cmd # None /\ last.cmd[1].name = n

\* C8: INFO REPLICATION is answered with one Bulk whose text is
\* "# Replication\nrole:<master|slave>\nmaster_replid:<id>\nmaster_repl_offset:<n>"
C8_InfoText ==
    LastName("Info")
        => /\ last.result.ok
           /\ Len(last.result.val) = 1
           /\ last.result.val[1].kind = "BulkString"
           /\ last.result.val[1].val # None
           /\ Str(last.result.val[1].val[1])
                = "# Replication\nrole:"
                    \o (IF info.role = "Master" THEN "master" ELSE "slave")
                    \o "\nmaster_replid:" \o Str(info.master_replid)
                    \o "\nmaster_repl_offset:" \o Str(NatToString(info.master_repl_offset))

\* C9: PSYNC ? -1 on a node whose replication id is R is answered with the one
\* Simple Status "FULLRESYNC R 0" and leaves the replication state as it was;
\* PSYNC ? x with another x is rejected with InvalidArguments
C9_PsyncQuestion ==
    /\ LastIs(Psync(Question(<<"-", "1">>)))
            => /\ last.result.ok
               /\ Len(last.result.val) = 1
               /\ last.result.val[1].kind = "SimpleString"
               /\ Str(last.result.val[1].val)
                    = "FULLRESYNC " \o Str(last.infoBefore[1].master_replid) \o " 0"
               /\ Str(last.wire)
                    = "+FULLRESYNC " \o Str(last.infoBefore[1].master_replid) \o " 0\r\n"
               /\ Some(info) = last.infoBefore
    /\ \A x \in {<<"0">>, <<"1">>, <<"-", "2">>} :
            last.req = Request(<<W_PSYNC, <<"?">>, x>>)
                => /\ last.cmd = None
                   /\ ~last.result.ok
                   /\ last.result.err = "InvalidArguments"

\* PSYNC ? -1 answered on a node that adopted the replication id "x" before
C9_Witness ==
    /\ LastIs(Psync(Question(<<"-", "1">>)))
    /\ last.infoBefore[1].master_replid = IdX
    /\ Str(last.wire) = "+FULLRESYNC x 0\r\n"
    /\ info.master_replid = IdX

\* C10: no step makes the replication offset smaller
C10_OffsetMonotone ==
    [][info'.master_repl_offset >= info.master_repl_offset]_vars

(***************************************************************************)
(* Properties of the handlers (specification ReplSpec)                     *)
(***************************************************************************)
\* the last request ended in an error: a codec error, a command error of the
\* parser, or a command error of the dispatcher
LastFailed == last.req # << >> /\ ~last.result.ok

\* C11: no command changes the role, and every command but PSYNC <id> <offset>
\* (PING, ECHO, GET, SET, INFO, REPLCONF capa, REPLCONF listening-port and
\* PSYNC ? -1) leaves the replication id and the replication offset as they were
C11_ReplicationFrame ==
    last.cmd # None
        => /\ info.role = last.infoBefore[1].role
           /\ (\/ last.cmd[1].name \in {"Ping", "Echo", "Get", "Set", "Info", "Replconf"}
               \/ LastIs(Psync(Question(<<"-", "1">>))))
                => (/\ info.master_replid = last.infoBefore[1].master_replid
                    /\ info.master_repl_offset = last.infoBefore[1].master_repl_offset)

\* REPLCONF listening-port answered on a primary that took another id and offset
\* before: role, id and offset are what they were
C11_Witness ==
    /\ LastName("Replconf")
    /\ last.cmd[1].args[1].variant = "Port"
    /\ last.infoBefore = Some([role |-> "Master", master_replid |-> IdX, master_repl_offset |-> 2])
    /\ Some(info) = last.infoBefore

\* this step is an iteration of the handler of connection c
Handled(c) == last'.n # last.n /\ last'.conn = c

\* C12: a request that ends in a codec error or a command error leaves the
\* keyspace and the replication state as they were, and leaves every other
\* connection as it was: an open one stays open, with its handler reading on
C12_ErrorsLeaveState ==
    [][\A c \in Conns :
        (Handled(c) /\ ~last'.result.ok)
            => /\ cache' = cache
               /\ info' = info
               /\ \A d \in Conns \ {c} : conn'[d] = conn[d]]_vars

\* PSYNC y zz was rejected at dispatch on a node that holds an entry and took
\* the id x before; the entry and the id are there and the other connection
\* is open
C12_Witness ==
    /\ LastFailed
    /\ LastIs(Psync(Id(IdY, <<"z", "z">>)))
    /\ cache[K2] # None
    /\ info = [role |-> "Master", master_replid |-> IdX, master_repl_offset |-> 2]
    /\ Some(info) = last.infoBefore
    /\ conn[last.conn] = "closed"
    /\ \E d \in Conns \ {last.conn} : conn[d] = "open"

\* C13: the handler of a connection ends at the first end of stream, codec error
\* or command error: nothing is written for the failing request, and a closed
\* connection has no request read, parsed, dispatched or answered
C13_HandlerStops ==
    [][\A c \in Conns :
        /\ (Handled(c) /\ ~last'.result.ok) => (conn'[c] = "closed" /\ last'.wire = << >>)
        /\ (conn[c] = "open" /\ conn'[c] = "closed" /\ last'.n = last.n)
                => (cache' = cache /\ info' = info)
        /\ conn[c] = "closed" => ~Handled(c)]_vars

\* an unsupported command ended the handler of its connection with nothing written
C13_Witness ==
    /\ LastFailed
    /\ last.req = Request(<<W_FOO>>)
    /\ last.result.err = "InvalidCommand"
    /\ last.wire = << >>
    /\ conn[last.conn] = "closed"

(***************************************************************************)
(* Properties of startup (specification StartSpec)                         *)
(***************************************************************************)
\* the port the node listens on when --port is not given
OwnPort == <<"6", "3", "7", "9">>

\* the read of one reply on the stream to the primary
Recv == [op |-> "read", data |-> << >>]

\* repl_handshake has returned Ok
HandshakeReturned == boot.replicaof # None /\ boot.pc \in {"bind", "listening"}

\* C14: when the handshake reports success it has sent PING, read a reply, sent
\* REPLCONF listening-port <own-port>, read a reply, sent REPLCONF capa psync2
\* and read a reply, in this order; after a failed step the node is not started
C14_HandshakeSteps ==
    /\ HandshakeReturned
            => /\ Len(boot.io) = 6
               /\ boot.io[1].op = "send" /\ to_uppercase(boot.io[1].data) = Request(<<W_PING>>)
               /\ boot.io[2] = Recv
               /\ boot.io[3] = Send(Request(<<W_REPLCONF, W_listening_port, OwnPort>>))
               /\ boot.io[4] = Recv
               /\ boot.io[5] = Send(Request(<<W_REPLCONF, W_capa, W_psync2>>))
               /\ boot.io[6] = Recv
    /\ boot.hs = "failed" => boot.pc = "aborted"

\* C15: a node started with --replicaof has no connection accepted and no
\* request handled unless its listener is bound, and its listener is bound
\* only after repl_handshake returned Ok; when the address does not parse or
\* the handshake fails, startup is aborted with no connection accepted
C15_HandshakeBeforeAccept ==
    /\ ((\E c \in Conns : conn[c] = "open") \/ last.req # << >>) => boot.pc = "listening"
    /\ (boot.replicaof # None /\ boot.pc \in {"bind", "listening"})
            => (boot.hs = "ok" /\ boot.master # None /\ boot.io # << >>)
    /\ (boot.replicaof # None /\ (boot.hs = "failed" \/ ~from_str(boot.replicaof[1]).ok)
            /\ boot.pc # "main")
            => (boot.pc = "aborted" /\ last.req = << >> /\ \A c \in Conns : conn[c] = "closed")

\* a replica answered a request after its handshake returned Ok
C15_Witness ==
    /\ boot.replicaof # None
    /\ boot.hs = "ok"
    /\ boot.pc = "listening"
    /\ info.role = "Slave"
    /\ last.result.ok
    /\ \E c \in Conns : conn[c] = "open"

(***************************************************************************)
(* Properties of the command parser (specification ParseSpec)              *)
(***************************************************************************)
\* the request is an Array whose first element is the verb w, in any case
IsVerb(w) ==
    /\ preq.kind = "Array"
    /\ preq.val # << >>
    /\ IsBulkSome(preq.val[1])
    /\ to_uppercase(BulkText(preq.val[1])) = w

\* the parser returned the error kind, or the command named
Rejected(kind) == ~pres.ok /\ pres.err = kind
Accepted(name) == pres.ok /\ pres.val.name = name

\* C16: a GET request becomes Get(key) when it has exactly one argument, a
\* present Bulk, and is rejected with InvalidArguments otherwise: with no
\* argument, with more than one, or with an argument that is no present Bulk
C16_GetArity ==
    (ppc = "parsed" /\ IsVerb(W_GET))
        => IF Len(preq.val) = 2 /\ IsBulkSome(preq.val[2])
           THEN Accepted("Get") /\ pres.val.args[1] = BulkText(preq.val[2])
           ELSE Rejected("InvalidArguments")

\* C17: a request that is no Array, or an Array with an element at any
\* position that is no present Bulk, is rejected with InvalidCommand
C17_ArrayOfBulk ==
    (ppc = "parsed"
        /\ (\/ preq.kind # "Array"
            \/ \E i \in 1..Len(preq.val) : ~IsBulkSome(preq.val[i])))
        => Rejected("InvalidCommand")

\* C18: Command::from_resp of a value that is no Array returns an error that
\* displays as "Command Error: Invalid Packet - RESP should be an array"
C18_NotArrayMessage ==
    (ppc = "parsed" /\ preq.kind # "Array")
        => (/\ ~pres.ok
            /\ to_string(pres) = "Command Error: Invalid Packet - RESP should be an array")

\* C19: ECHO with exactly one argument, a present Bulk, parses to Echo of that
\* argument; ECHO with one argument that is no present Bulk is rejected with an
\* error that displays as
\* "Command Error: Invalid Arguments - All arguments must be bulk strings"
C19_EchoArgument ==
    (ppc = "parsed" /\ IsVerb(W_ECHO) /\ Len(preq.val) = 2)
        => IF IsBulkSome(preq.val[2])
           THEN Accepted("Echo") /\ pres.val.args[1] = BulkText(preq.val[2])
           ELSE /\ ~pres.ok
                /\ to_string(pres)
                     = "Command Error: Invalid Arguments - All arguments must be bulk strings"

\* the arguments of the request are pairs of capa and a present Bulk
CapaPairs ==
    /\ Len(preq.val) % 2 = 1
    /\ \A i \in 2..Len(preq.val) :
        /\ IsBulkSome(preq.val[i])
        /\ i % 2 = 0 => to_lowercase(BulkText(preq.val[i])) = W_capa
\* the names the capa pairs of the request give
CapaNames == {BulkText(preq.val[i]) : i \in {j \in 3..Len(preq.val) : j % 2 = 1}}

\* C20: a REPLCONF request of capa pairs parses to Replconf with the set of the
\* distinct names given, a name given in several pairs counted once
C20_CapaDeduplicated ==
    (ppc = "parsed" /\ IsVerb(W_REPLCONF) /\ CapaPairs)
        => /\ Accepted("Replconf")
           /\ pres.val.args[1].variant = "Capa"
           /\ pres.val.args[1].val = CapaNames
           /\ \A i \in 3..Len(preq.val) :
                (i % 2 = 1 /\ \A j \in 3..Len(preq.val) : j % 2 = 1 => preq.val[j] = preq.val[i])
                    => Cardinality(pres.val.args[1].val) = 1

\* REPLCONF capa psync2 capa psync2 gives the one name psync2
C20_Witness ==
    /\ ppc = "parsed"
    /\ preq = Array(<<BulkString(Some(W_REPLCONF)), BulkString(Some(W_capa)),
                      BulkString(Some(W_psync2)), BulkString(Some(W_capa)),
                      BulkString(Some(W_psync2))>>)
    /\ Accepted("Replconf")
    /\ pres.val.args[1].val = {W_psync2}

\* scanning the arguments of the request from position i in pairs, a malformed
\* one comes before any listening-port pair: a sub-verb that is no present
\* Bulk, an unrecognized sub-verb, a sub-verb with no argument after it, or a
\* value that is no present Bulk
RECURSIVE MalformedFrom(_)
MalformedFrom(i) ==
    IF i > Len(preq.val) THEN FALSE
    ELSE IF ~IsBulkSome(preq.val[i]) THEN TRUE
    ELSE IF to_lowercase(BulkText(preq.val[i])) \notin {W_capa, W_listening_port} THEN TRUE
    ELSE IF i + 1 > Len(preq.val) THEN TRUE
    ELSE IF ~IsBulkSome(preq.val[i + 1]) THEN TRUE
    ELSE IF to_lowercase(BulkText(preq.val[i])) = W_listening_port THEN FALSE
    ELSE MalformedFrom(i + 2)

\* C21: a REPLCONF request whose arguments are malformed before any
\* listening-port pair is rejected with InvalidArguments
C21_ReplconfMalformed ==
    (ppc = "parsed" /\ IsVerb(W_REPLCONF) /\ MalformedFrom(2))
        => Rejected("InvalidArguments")

(***************************************************************************)
(* Properties of the framing (specification WireSpec)                      *)
(***************************************************************************)
HasCrLf(text) == \E i \in 1..(Len(text) - 1) : text[i] = CR /\ text[i + 1] = LF

\* C22: a Simple Status the dispatcher answers with holds no CR LF pair, and
\* its encoding decodes back to it
C22_StatusNoCrLf ==
    (last.req # << >> /\ last.result.ok)
        => \A i \in 1..Len(last.result.val) :
            last.result.val[i].kind = "SimpleString"
                => /\ ~HasCrLf(last.result.val[i].val)
                   /\ readnext_resp(encode(last.result.val[i])).ok
                   /\ readnext_resp(encode(last.result.val[i])).val = last.result.val[i]

\* C25: when two complete requests arrive in one read, both are dispatched and
\* both responses are written, in the order of the requests
C25_BothRequestsServed ==
    /\ last.req = Request(<<W_PING>>) \o Request(<<W_ECHO, VA>>)
            => Str(last.wire) = "+PONG\r\n$1\r\na\r\n"
    /\ last.req = Request(<<W_SET, K1, VA>>) \o Request(<<W_GET, K1>>)
            => (/\ Str(last.wire) = "+OK\r\n$1\r\na\r\n"
                /\ cache[K1] # None
                /\ lastOn[K1] # None /\ lastOn[K1][1].name = "Get")

(***************************************************************************)
(* Properties of the locking (specification LockSpec)                      *)
(***************************************************************************)
\* C23: GET's test of the expiry and its removal are one step for every other
\* operation on the map: whenever a GET is about to remove, it holds the lock,
\* the entry under its key is still the very entry it read, and that entry had
\* expired at the time the GET took; so it never removes what a SET of another
\* connection wrote after the read, and no answered SET is lost to it.
C23_GetAtomic ==
    \A c \in Conns :
        (task[c].pc = "remove" /\ Cmd(c).name = "Get") =>
            /\ cacheLock = c
            /\ task[c].value # None
            /\ cache[Cmd(c).args[1]] = task[c].value
            /\ task[c].value[1].expiry # None
            /\ task[c].value[1].expiry[1] < task[c].t
            /\ \A d \in Conns \ {c} : task[d].pc \notin {"locked", "remove", "unlock"}
                                      \/ Cmd(d).name \notin {"Get", "Set"}

\* a GET has read an expired entry and is about to remove it while a SET of
\* the same key, dispatched on another connection, waits for the lock
C23_Witness ==
    \E c \in Conns, d \in Conns :
        /\ task[c].pc = "remove" /\ Cmd(c).name = "Get"
        /\ task[d].pc = "dispatch" /\ Cmd(d).name = "Set"
        /\ Cmd(d).args[1] = Cmd(c).args[1]

\* the (id, offset) pairs that one command installs: the pair of Info::new and
\* the pair of each PSYNC <id> <offset> whose offset parses
InstalledPairs ==
    {<<InitialReplId, 0>>} \cup
    {<<p.args[1].val[1], ParseUnsigned(p.args[1].val[2])[1]>> :
        p \in {q \in LockCommands : /\ q.name = "Psync"
                                    /\ q.args[1].variant = "Id"
                                    /\ ParseUnsigned(q.args[1].val[2]) # None}}

\* the reply of INFO REPLICATION that shows the pair pr
InfoReply(pr) ==
    <<BulkString(Some(replication([info EXCEPT !.master_replid = pr[1],
                                               !.master_repl_offset = pr[2]])))>>

\* C24: reads and writes of Info do not race: the reply of every INFO
\* REPLICATION shows the initial pair or the pair one PSYNC <id> <offset>
\* installed, never the id of one PSYNC with the offset of another.
C24_InfoPairWhole ==
    \A c \in Conns :
        (task[c].pc \in {"unlock", "write"} /\ Cmd(c).name = "Info") =>
            \E pr \in InstalledPairs : task[c].resp = InfoReply(pr)

\* an INFO REPLICATION is answered with the pair of PSYNC x 1 while the PSYNC
\* of another connection has written its id and not yet its offset
C24_Witness ==
    \E c \in Conns, d \in Conns :
        /\ task[c].pc = "write" /\ Cmd(c).name = "Info"
        /\ task[c].resp = InfoReply(<<IdX, 1>>)
        /\ task[d].pc = "idset"
        /\ info.master_replid = IdY /\ info.master_repl_offset = 1

\* connection c holds a guard although its call is not inside an arm
HoldsOutside(c) ==
    /\ task[c].pc \in {"idle", "dispatch", "write", "failed"}
    /\ cacheLock = c \/ infoLock = c

\* C26: no command holds the lock of the map and the lock of Info together,
\* every command has released its lock before its response is written, and
\* under fair scheduling and fair lock acquisition every dispatched command
\* completes: its response is written or its error ends the handler.
C26_NoDeadlock ==
    /\ [](\A c \in Conns : ~(cacheLock = c /\ infoLock = c) /\ ~HoldsOutside(c))
    /\ \A c \in Conns : (task[c].pc = "dispatch") ~> (task[c].pc \in {"idle", "failed"})

\* one connection is inside the Set arm with the lock while the GET of
\* another connection waits for it
C26_Witness ==
    \E c \in Conns, d \in Conns :
        /\ cacheLock = c /\ task[c].pc = "locked" /\ Cmd(c).name = "Set"
        /\ task[d].pc = "dispatch" /\ Cmd(d).name = "Get"

====
